---------------------------- MODULE Spec2Model ----------------------------
(***************************************************************************)
(* Model of the AI Universe Explorer (neom410/my-ai-universe).             *)
(*                                                                         *)
(* The repository holds two programs that each define a class             *)
(* UniverseDataExplorer:                                                   *)
(*   src/niverse_explorer.py  the "core engine": the whole class, no trim  *)
(*                            of the insight list;                         *)
(*   src/app.py               the engine plus the Flask service.  In this  *)
(*                            file the line `def _generate_autonomous_     *)
(*                            insights(self):` (line 139) starts at column *)
(*                            0, so the class body ends at line 137 and    *)
(*                            lines 139-421 are a module-level function    *)
(*                            with _universal_search, get_universe_status, *)
(*                            get_recent_insights and get_total_entities   *)
(*                            as its local functions.                      *)
(* The variable `program` says which of the two is running.  The           *)
(* constructor of app.py's class ends in an AttributeError (its last line  *)
(* calls self.get_total_entities()), so app.py never gets past the         *)
(* module-level `explorer = UniverseDataExplorer()` and defines no route.  *)
(* The handlers of the service layer are therefore modelled as callers of  *)
(* whichever engine became ready: each handler body is one call of an      *)
(* engine method, which is also how a client of niverse_explorer.py uses   *)
(* the engine.                                                             *)
(*                                                                         *)
(* Specifications                                                          *)
(*   Spec          the constructor and the handlers (/explore, /search,    *)
(*                 /status, /insights);                                    *)
(*   SearchSpec    the constructor, then _universal_search with terms      *)
(*                 taken from the universe;                                *)
(*   RefreshSpec   the constructor, then the two callers of the refresh:   *)
(*                 the background thread and /explore;                     *)
(*   TaskSpec      the background thread alone, under weak fairness of     *)
(*                 its steps;                                              *)
(*   FunctionSpec  the module-level function of app.py (lines 139-348)     *)
(*                 called on the engine that became ready.  The function   *)
(*                 needs self.get_total_entities, which the class of       *)
(*                 niverse_explorer.py has and app.py's own class has not; *)
(*   RaceSpec      two calls of that function in progress at once, each a  *)
(*                 sequence of reads and writes of the insight list.       *)
(*                                                                         *)
(* Data representation                                                     *)
(*   - a Python str is a tuple of one-character strings, so that lower(),  *)
(*     upper() and the substring test `in` are computed, not assumed;      *)
(*   - a Python dict is a tuple of <<key, value>> pairs in insertion order *)
(*     (dicts keep insertion order; assigning an existing key keeps its    *)
(*     place and replaces its value);                                      *)
(*   - a JSON / attribute value is a tagged record (Str, Num, None,        *)
(*     Absent); percentages are kept in tenths of a percent (12.0 -> 120). *)
(***************************************************************************)
EXTENDS Integers, Sequences, FiniteSets, TLC

VARIABLES
    program,              \* "niverse_explorer" | "app": which file is run
    phase,                \* position of the constructor / the process
    data_universe,        \* self.data_universe: dict domain -> dict entity -> attrs
    autonomous_insights,  \* self.autonomous_insights: list of insight records
    exploration_state,    \* self.exploration_state
    clock,                \* what time.time() / datetime.now() returns next
    outage,               \* TRUE while every upstream call made so far has failed
    explore_log,          \* the results of the last two /explore requests
    response,             \* the last value returned to a caller
    last_outcomes,        \* what the upstream answered to the discovery routine run last
    task_pc,              \* position of the background exploration thread
    threads               \* the calls of the insight function of app.py in progress

\* the variables of the threads
tasks == <<task_pc, threads>>

vars == <<program, phase, data_universe, autonomous_insights,
          exploration_state, clock, outage, explore_log, response,
          last_outcomes, task_pc, threads>>

---------------------------------------------------------------------------
(* Bounds of the model *)

\* refresh cycles a behaviour may run
MaxCycles == 9
\* entries one page of the market listing holds (per_page is 250 in the code)
PerPage == 2
\* research categories queried, of the 9 the code lists
MaxCategories == 2
\* calls of the insight function made one after another before two calls
\* are made at the same time
MaxSequential == 3

---------------------------------------------------------------------------
(* Python str *)

Uppers == <<"A","B","C","D","E","F","G","H","I","J","K","L","M",
            "N","O","P","Q","R","S","T","U","V","W","X","Y","Z">>
Lowers == <<"a","b","c","d","e","f","g","h","i","j","k","l","m",
            "n","o","p","q","r","s","t","u","v","w","x","y","z">>

\* the characters the model's strings are written in
CharSet ==
    {Uppers[i] : i \in 1..26} \cup {Lowers[i] : i \in 1..26}
    \cup {"0","1","2","3","4","5","6","7","8","9","-",".","/"," ","_"}

\* one character of str.lower() and of str.upper(), tabulated
LowerTable ==
    [c \in CharSet |->
        IF \E i \in 1..26 : Uppers[i] = c
        THEN Lowers[CHOOSE i \in 1..26 : Uppers[i] = c] ELSE c]

UpperTable ==
    [c \in CharSet |->
        IF \E i \in 1..26 : Lowers[i] = c
        THEN Uppers[CHOOSE i \in 1..26 : Lowers[i] = c] ELSE c]

LowerChar(c) == LowerTable[c]

UpperChar(c) == UpperTable[c]

\* Lower with the case conversion forgotten (a faulty variant)
LowerIdentity(s) == s

\* str.lower()
Lower(s) == [i \in 1..Len(s) |-> LowerChar(s[i])]

\* str.upper()
Upper(s) == [i \in 1..Len(s) |-> UpperChar(s[i])]

\* `needle in haystack` for two str
Contains(needle, haystack) ==
    \E i \in 0..(Len(haystack) - Len(needle)) :
        \A j \in 1..Len(needle) : haystack[i + j] = needle[j]

---------------------------------------------------------------------------
(* Python values and dict *)

Str(s)  == [t |-> "str",    s |-> s,    n |-> 0]
Num(n)  == [t |-> "num",    s |-> <<>>, n |-> n]
None    == [t |-> "none",   s |-> <<>>, n |-> 0]
Absent  == [t |-> "absent", s |-> <<>>, n |-> 0]

EmptyDict == <<>>

DictKeys(d) == [i \in 1..Len(d) |-> d[i][1]]

DictHas(d, k) == \E i \in 1..Len(d) : d[i][1] = k

\* d.get(k, default)
DictGet(d, k, default) ==
    IF DictHas(d, k) THEN d[CHOOSE i \in 1..Len(d) : d[i][1] = k][2] ELSE default

\* DictSet as a list of pairs that is appended to, never overwritten (a
\* faulty variant)
DictSetAppendOnly(d, k, v) == Append(d, <<k, v>>)

\* d[k] = v
DictSet(d, k, v) ==
    IF DictHas(d, k)
    THEN [i \in 1..Len(d) |-> IF d[i][1] = k THEN <<k, v>> ELSE d[i]]
    ELSE Append(d, <<k, v>>)

\* the set of keys a dict holds
KeySet(d) == {d[i][1] : i \in 1..Len(d)}


---------------------------------------------------------------------------
(* The two class definitions *)

\* the attributes `class UniverseDataExplorer` of src/niverse_explorer.py binds
NiverseMethods ==
    {"__init__", "_bootstrap_universe", "_discover_crypto_universe",
     "_discover_news_universe", "_discover_research_universe",
     "autonomous_universe_exploration", "_generate_autonomous_insights",
     "_universal_search", "get_universe_status", "get_recent_insights",
     "get_total_entities"}

\* the attributes `class UniverseDataExplorer` of src/app.py binds: the class
\* body ends before the def at column 0 of line 139
AppMethods ==
    {"__init__", "_bootstrap_universe", "_discover_crypto_universe",
     "_discover_news_universe", "_discover_research_universe",
     "autonomous_universe_exploration"}

\* attribute lookup self.<name>: FALSE is an AttributeError
HasMethod(prog, name) ==
    IF prog = "app" THEN name \in AppMethods ELSE name \in NiverseMethods

---------------------------------------------------------------------------
(* Upstream collaborators: what the providers may answer *)

\* datetime.now().isoformat() at time t, cut to the part that varies
Digits == <<"0","1","2","3","4","5","6","7","8","9">>
IsoFormat(t) == <<"T", Digits[((t \div 10) % 10) + 1], Digits[(t % 10) + 1]>>

\* p percent, in the model's unit of a tenth of a percent
Pct(p) == p * 10

Coin(sym, name, price, mcap, change) ==
    [symbol |-> sym, name |-> name, current_price |-> price,
     market_cap |-> mcap, price_change_percentage_24h |-> change]

\* US dollars, in the model's unit of a cent
Usd(d) == d * 100

\* The market listing, in market-cap order; prices in cents, market caps in
\* millions of dollars.  The first four entries carry the percent changes
\* 12.0, -11.0, 1.0 and 0.5; the fourth has a null price, the fifth shares
\* its symbol with the first (listings do repeat symbols) and moved by 25%;
\* the sixth has null price and change, as the API returns for a stale coin.
MarketListing ==
    << Coin(<<"b","t","c">>, <<"B","i","t","c","o","i","n">>, Num(Usd(600)), Num(1200), Num(Pct(12))),
       Coin(<<"e","t","h">>, <<"E","t","h","e","r">>, Num(Usd(3000)), Num(4000), Num(-Pct(11))),
       Coin(<<"a","d","a">>, <<"C","a","r","d","a","n","o">>, Num(1), Num(20), Num(Pct(1))),
       Coin(<<"x","r","p">>, <<"R","i","p","p","l","e">>, None, Num(3000), Num(5)),
       Coin(<<"B","T","C">>, <<"B","i","t","c","a","s","h">>, Num(50), Num(1), Num(Pct(25))),
       Coin(<<"s","o","l">>, <<"S","o","l","a","n","a">>, None, Absent, None) >>

Min(a, b) == IF a < b THEN a ELSE b

\* page p (1-based) of the listing
MarketPage(p) ==
    SubSeq(MarketListing, (p - 1) * PerPage + 1, Min(p * PerPage, Len(MarketListing)))

\* range(1, 4)
CryptoPagesNiverse == 3
\* range(1, 3)
CryptoPagesApp == 2

CryptoPages(prog) == IF prog = "app" THEN CryptoPagesApp ELSE CryptoPagesNiverse

\* What one page request may do: -1 the request raises, times out or answers
\* non-200; k >= 0 the first k entries of the page are processed (the whole
\* page, or fewer when the listing is shorter or an entry without 'symbol'
\* or 'name' raises KeyError inside the loop).
PageOutcomes(p) == -1 .. Len(MarketPage(p))

\* The feeds of news_sources: title (Absent when the feed has none), url,
\* number of entries, title of the first entry.  URLs are abbreviated.
Feeds ==
    << [title |-> Str(<<"T","e","c","h","C","r","u","n","c","h">>), url |-> <<"t","c",".","c","o","m","/","f","e","e","d">>,
        entries |-> 20, latest |-> <<"A","I"," ","f","u","n","d","i","n","g">>],
       [title |-> Str(<<"W","I","R","E","D">>), url |-> <<"w","i","r","e","d",".","c","o","m","/","r","s","s">>,
        entries |-> 10, latest |-> <<"B","i","t","c","o","i","n"," ","m","i","n","e">>],
       [title |-> Absent, url |-> <<"r","e","u","t","e","r","s",".","c","o","m","/","b","i","z">>,
        entries |-> 25, latest |-> <<"M","a","r","k","e","t","s">>] >>

\* What parsing one feed may do: -1 it raises (no network, no feedparser),
\* 0 the feed has no entries, 1 it has entries.
FeedOutcomes == {-1, 0, 1}

\* research_categories of src/niverse_explorer.py (9 codes)
ResearchCategoriesNiverse ==
    << <<"c","s",".","A","I">>,
       <<"c","s",".","L","G">>,
       <<"c","s",".","C","L">>,
       <<"c","s",".","C","V">>,
       <<"c","s",".","R","O">>,
       <<"p","h","y","s","i","c","s",".","g","e","n","-","p","h">>,
       <<"m","a","t","h",".","N","A">>,
       <<"s","t","a","t",".","M","L">>,
       <<"q","-","b","i","o",".","B","M">> >>

\* research_categories of src/app.py (5 codes)
ResearchCategoriesApp ==
    << <<"c","s",".","A","I">>, <<"c","s",".","L","G">>, <<"c","s",".","C","L">>, <<"c","s",".","C","V">>, <<"c","s",".","R","O">> >>

\* the categories the model queries
QueriedCategories ==
    SubSeq(ResearchCategoriesNiverse, 1, Min(MaxCategories, Len(ResearchCategoriesNiverse)))

\* What one index query may do: -1 it raises, 0 it answers non-200, 1 it
\* answers 200 with max_results entries.
QueryOutcomes == {-1, 0, 1}

\* max_results=10 in the query, also the count app.py hard-codes
PapersPerQuery == 10

S_USD == <<"-","U","S","D">>
S_cryptocurrency == <<"c","r","y","p","t","o","c","u","r","r","e","n","c","y">>
S_news_source == <<"n","e","w","s","_","s","o","u","r","c","e">>
S_research_category == <<"r","e","s","e","a","r","c","h","_","c","a","t","e","g","o","r","y">>

---------------------------------------------------------------------------
(* Bootstrap: the three discovery routines *)

\* crypto.get(key, default) on the upstream JSON
JsonGet(v, default) == IF v.t = "absent" THEN default ELSE v

\* the attribute record _discover_crypto_universe builds for one listing entry
CryptoEntry(crypto, t) ==
    << <<"name", Str(crypto.name)>>,
       <<"current_price", JsonGet(crypto.current_price, None)>>,
       <<"market_cap", JsonGet(crypto.market_cap, None)>>,
       <<"price_change_24h", JsonGet(crypto.price_change_percentage_24h, Num(0))>>,
       <<"discovered_at", Str(IsoFormat(t))>>,
       <<"type", Str(S_cryptocurrency)>> >>

\* for crypto in cryptos: crypto_data[f"{symbol}-USD"] = {...}
RECURSIVE AddCryptos(_, _, _)
AddCryptos(crypto_data, cryptos, t) ==
    IF cryptos = <<>> THEN crypto_data
    ELSE AddCryptos(DictSet(crypto_data, Upper(Head(cryptos).symbol) \o S_USD,
                            CryptoEntry(Head(cryptos), t)),
                    Tail(cryptos), t)

\* the page loop that stops at the first failed page (a faulty variant)
RECURSIVE CryptoLoopBreak(_, _, _, _, _)
CryptoLoopBreak(page, last, outs, crypto_data, t) ==
    IF page > last \/ outs[page] = -1 THEN crypto_data
    ELSE CryptoLoopBreak(page + 1, last, outs,
                         AddCryptos(crypto_data, SubSeq(MarketPage(page), 1, outs[page]), t),
                         t)

\* for page in range(1, last + 1): a failed page is skipped
RECURSIVE CryptoLoop(_, _, _, _, _)
CryptoLoop(page, last, outs, crypto_data, t) ==
    IF page > last THEN crypto_data
    ELSE CryptoLoop(page + 1, last, outs,
                    IF outs[page] = -1 THEN crypto_data
                    ELSE AddCryptos(crypto_data, SubSeq(MarketPage(page), 1, outs[page]), t),
                    t)

\* _discover_crypto_universe: the dict assigned to data_universe['financial']
discover_crypto_universe(prog, outs, t) ==
    CryptoLoop(1, CryptoPages(prog), outs, EmptyDict, t)

\* the entry _discover_news_universe (niverse_explorer.py) builds for one feed
NewsEntry(feed, t) ==
    << <<"url", Str(feed.url)>>,
       <<"articles_count", Num(feed.entries)>>,
       <<"latest_article", Str(feed.latest)>>,
       <<"discovered_at", Str(IsoFormat(t))>>,
       <<"type", Str(S_news_source)>> >>

\* for source_url in news_sources: a feed that raises or is empty adds nothing
RECURSIVE NewsLoop(_, _, _, _)
NewsLoop(i, outs, news_data, t) ==
    IF i > Len(Feeds) THEN news_data
    ELSE NewsLoop(i + 1, outs,
                  IF outs[i] = 1
                  THEN DictSet(news_data, JsonGet(Feeds[i].title, Str(Feeds[i].url)).s,
                               NewsEntry(Feeds[i], t))
                  ELSE news_data,
                  t)

\* the dict literal of _discover_news_universe in app.py: no upstream call
NewsLiteralApp(t) ==
    << << <<"T","e","c","h","C","r","u","n","c","h">>,
          << <<"url", Str(<<"t","c",".","c","o","m","/","f","e","e","d">>)>>, <<"articles_count", Num(20)>>,
             <<"type", Str(S_news_source)>>, <<"discovered_at", Str(IsoFormat(t))>> >> >>,
       << <<"R","e","u","t","e","r","s"," ","B","u","s","i","n","e","s","s">>,
          << <<"url", Str(<<"r","e","u","t","e","r","s",".","c","o","m","/","b","i","z">>)>>, <<"articles_count", Num(25)>>,
             <<"type", Str(S_news_source)>>, <<"discovered_at", Str(IsoFormat(t))>> >> >> >>

\* _discover_news_universe: the dict assigned to data_universe['news']
discover_news_universe(prog, outs, t) ==
    IF prog = "app" THEN NewsLiteralApp(t) ELSE NewsLoop(1, outs, EmptyDict, t)

ResearchEntry(category, t) ==
    << <<"recent_papers", Num(PapersPerQuery)>>,
       <<"category", Str(category)>>,
       <<"discovered_at", Str(IsoFormat(t))>>,
       <<"type", Str(S_research_category)>> >>

\* for category in research_categories; `upstream` is FALSE in app.py, whose
\* loop makes no request and fills every category in
RECURSIVE ResearchLoop(_, _, _, _, _, _)
ResearchLoop(i, categories, upstream, outs, research_data, t) ==
    IF i > Len(categories) THEN research_data
    ELSE ResearchLoop(i + 1, categories, upstream, outs,
                      IF ~upstream \/ outs[i] = 1
                      THEN DictSet(research_data, categories[i],
                                   ResearchEntry(categories[i], t))
                      ELSE research_data,
                      t)

\* _discover_research_universe: the dict assigned to data_universe['research']
discover_research_universe(prog, outs, t) ==
    IF prog = "app"
    THEN ResearchLoop(1, ResearchCategoriesApp, FALSE, outs, EmptyDict, t)
    ELSE ResearchLoop(1, QueriedCategories, TRUE, outs, EmptyDict, t)

\* sum(len(domain_data) for domain_data in self.data_universe.values()), from
\* the i-th domain on
RECURSIVE SumLenFrom(_, _)
SumLenFrom(universe, i) ==
    IF i > Len(universe) THEN 0
    ELSE Len(universe[i][2]) + SumLenFrom(universe, i + 1)

\* get_total_entities that misses the first domain (a faulty variant)
TotalEntitiesSkipFirst(universe) == SumLenFrom(universe, 2)

\* get_total_entities
get_total_entities(universe) == SumLenFrom(universe, 1)

---------------------------------------------------------------------------
(* The constructor *)

NoResponse == [kind |-> "none"]

Programs == {"niverse_explorer", "app"}

\* __init__ up to the call of _bootstrap_universe
Init ==
    /\ program \in Programs
    /\ phase = "discover_crypto"
    /\ data_universe = EmptyDict
    /\ autonomous_insights = <<>>
    /\ exploration_state = [total_discoveries |-> 0, universe_size |-> 0, last_update |-> 0]
    /\ clock = 1
    /\ outage = TRUE
    /\ explore_log = <<>>
    /\ response = NoResponse
    /\ last_outcomes = <<>>
    /\ task_pc = "not_started"
    /\ threads = <<>>

\* the page outcomes of one run of _discover_crypto_universe
CryptoOutcomes(prog) ==
    {outs \in [1..CryptoPages(prog) -> -1..PerPage] :
        \A p \in 1..CryptoPages(prog) : outs[p] \in PageOutcomes(p)}

AllFailed(outs) == \A i \in DOMAIN outs : outs[i] = -1

DiscoverCrypto ==
    /\ phase = "discover_crypto"
    /\ \E outs \in CryptoOutcomes(program) :
        /\ data_universe' = DictSet(data_universe, "financial",
                                    discover_crypto_universe(program, outs, clock))
        /\ outage' = (outage /\ AllFailed(outs))
        /\ last_outcomes' = outs
    /\ phase' = "discover_news"
    /\ UNCHANGED <<program, autonomous_insights, exploration_state, clock,
                   explore_log, response, tasks>>

DiscoverNews ==
    /\ phase = "discover_news"
    /\ \E outs \in [1..Len(Feeds) -> FeedOutcomes] :
        /\ program = "app" => AllFailed(outs)   \* app.py parses no feed
        /\ data_universe' = DictSet(data_universe, "news",
                                    discover_news_universe(program, outs, clock))
        /\ outage' = (outage /\ AllFailed(outs))
        /\ last_outcomes' = outs
    /\ phase' = "discover_research"
    /\ UNCHANGED <<program, autonomous_insights, exploration_state, clock,
                   explore_log, response, tasks>>

DiscoverResearch ==
    /\ phase = "discover_research"
    /\ \E outs \in [1..Len(QueriedCategories) -> QueryOutcomes] :
        /\ program = "app" => AllFailed(outs)   \* app.py queries no index
        /\ data_universe' = DictSet(data_universe, "research",
                                    discover_research_universe(program, outs, clock))
        /\ outage' = (outage /\ AllFailed(outs))
        /\ last_outcomes' = outs
    /\ phase' = "bootstrap_print"
    /\ UNCHANGED <<program, autonomous_insights, exploration_state, clock,
                   explore_log, response, tasks>>

\* print(f"... {self.get_total_entities()} ..."), the last line of
\* _bootstrap_universe: an AttributeError leaves the constructor, and in
\* app.py the module-level `explorer = UniverseDataExplorer()` with it
BootstrapComplete ==
    /\ phase = "bootstrap_print"
    /\ phase' = IF HasMethod(program, "get_total_entities") THEN "ready" ELSE "crashed"
    /\ last_outcomes' = <<>>
    /\ UNCHANGED <<program, data_universe, autonomous_insights, exploration_state,
                   clock, outage, explore_log, response, tasks>>

---------------------------------------------------------------------------
(* The engine of src/niverse_explorer.py: insight generation and refresh *)

Abs(x) == IF x < 0 THEN -x ELSE x

\* `abs(change) > 10`
MoverThreshold == Pct(10)

\* data.get('price_change_24h', 0)
ChangeOf(data) == DictGet(data, "price_change_24h", Num(0))

\* abs(None) raises TypeError at the first entity whose change is null
GenerationRaises(financial_data) ==
    \E i \in 1..Len(financial_data) : ChangeOf(financial_data[i][2]).t # "num"

\* the loop that fills big_movers with (symbol, change), in dict order
RECURSIVE BigMovers(_, _)
BigMovers(financial_data, i) ==
    IF i > Len(financial_data) THEN <<>>
    ELSE LET change == ChangeOf(financial_data[i][2]).n
         IN  (IF Abs(change) > MoverThreshold
              THEN << <<financial_data[i][1], change>> >> ELSE <<>>)
             \o BigMovers(financial_data, i + 1)

\* big_movers[:5]
TopMovers == 5

MarketMovement(big_movers, t) ==
    [type |-> "market_movement",
     description |-> [template |-> "Detected {n} cryptocurrencies with >10% price movement",
                      n |-> Len(big_movers), names |-> <<>>],
     keys |-> {"type", "description", "details", "timestamp"},
     details |-> SubSeq(big_movers, 1, Min(TopMovers, Len(big_movers))),
     entity_count |-> 0,
     timestamp |-> t]

CrossDomain(domains, total, t) ==
    [type |-> "cross_domain_analysis",
     description |-> [template |-> "Universe spans {n} domains: {names}",
                      n |-> Len(domains), names |-> domains],
     keys |-> {"type", "description", "entity_count", "timestamp"},
     details |-> <<>>,
     entity_count |-> total,
     timestamp |-> t]

\* _generate_autonomous_insights of niverse_explorer.py: the new insight list.
\* An exception is caught and printed; nothing is appended then, because the
\* loop over the financial domain runs before the first append.
generate_autonomous_insights(insights, universe, t) ==
    LET financial_data == DictGet(universe, "financial", EmptyDict)
        big_movers == BigMovers(financial_data, 1)
        after_financial ==
            IF financial_data # <<>> /\ big_movers # <<>>
            THEN Append(insights, MarketMovement(big_movers, t))
            ELSE insights
        domains == DictKeys(universe)
    IN  IF financial_data # <<>> /\ GenerationRaises(financial_data)
        THEN insights
        ELSE IF Len(domains) > 1
             THEN Append(after_financial,
                         CrossDomain(domains, get_total_entities(universe), t))
             ELSE after_financial

\* the refresh with a discovery step in it: the financial domain is fetched
\* again, and the upstream is down (a faulty variant)
exploration_rediscovering(prog, insights, universe, state, t) ==
    LET new == generate_autonomous_insights(insights, universe, t)
    IN  [raised |-> FALSE,
         insights |-> new,
         universe |-> DictSet(universe, "financial", EmptyDict),
         state |-> [state EXCEPT !.total_discoveries = get_total_entities(universe),
                                 !.last_update = t],
         result |-> [insights_generated |-> Len(new), timestamp |-> t]]

\* the refresh whose insight generation has no try / except of its own: the
\* TypeError of abs(None) leaves the call (a faulty variant)
exploration_uncaught(prog, insights, universe, state, t) ==
    LET new == generate_autonomous_insights(insights, universe, t)
        financial_data == DictGet(universe, "financial", EmptyDict)
    IN  IF financial_data # <<>> /\ GenerationRaises(financial_data)
        THEN [raised |-> TRUE, insights |-> insights, universe |-> universe,
              state |-> state,
              result |-> [insights_generated |-> 0, timestamp |-> t]]
        ELSE [raised |-> FALSE,
              insights |-> new,
              universe |-> universe,
              state |-> [state EXCEPT !.total_discoveries = get_total_entities(universe),
                                      !.last_update = t],
              result |-> [insights_generated |-> Len(new), timestamp |-> t]]

\* autonomous_universe_exploration: the engine after the call and the result
\* record.  The call reads data_universe (.get, .keys, .values) and assigns
\* only autonomous_insights and two fields of exploration_state.  In app.py's
\* class the lookup of _generate_autonomous_insights is an AttributeError,
\* raised before anything is changed.
autonomous_universe_exploration(prog, insights, universe, state, t) ==
    IF ~HasMethod(prog, "_generate_autonomous_insights")
    THEN [raised |-> TRUE, insights |-> insights, universe |-> universe,
          state |-> state,
          result |-> [insights_generated |-> 0, timestamp |-> t]]
    ELSE LET new == generate_autonomous_insights(insights, universe, t)
         IN  [raised |-> FALSE,
              insights |-> new,
              universe |-> universe,
              state |-> [state EXCEPT !.total_discoveries = get_total_entities(universe),
                                      !.last_update = t],
              result |-> [insights_generated |-> Len(new), timestamp |-> t]]

\* insight.get('type', 'general') and the other three fields of one record
RecentRecord(insight) ==
    [category |-> IF "type" \in insight.keys THEN insight.type ELSE "general",
     description |-> insight.description,
     timestamp |-> insight.timestamp,
     details |-> IF "details" \in insight.keys THEN insight.details ELSE <<>>]

\* self.autonomous_insights[-limit:]: the whole list when it is shorter, and
\* also when limit is 0 (the slice [-0:] starts at index 0)
LastSlice(insights, limit) ==
    IF limit = 0 \/ limit >= Len(insights) THEN insights
    ELSE SubSeq(insights, Len(insights) - limit + 1, Len(insights))

\* the slice [:limit]: the oldest insights (a faulty variant)
recent_insights_oldest(insights, limit) ==
    LET recent == SubSeq(insights, 1, Min(limit, Len(insights)))
    IN  [i \in 1..Len(recent) |-> RecentRecord(recent[i])]

\* get_recent_insights(limit)
get_recent_insights(insights, limit) ==
    LET recent == LastSlice(insights, limit)
    IN  [i \in 1..Len(recent) |-> RecentRecord(recent[i])]

\* def get_recent_insights(self, limit=10)
DefaultLimit == 10

---------------------------------------------------------------------------
(* The module-level function _generate_autonomous_insights of src/app.py,   *)
(* lines 139-348.  It takes the engine as its argument `self`; it needs the *)
(* attributes data_universe and autonomous_insights and the method         *)
(* get_total_entities of that object.                                       *)

\* `if len(self.autonomous_insights) > 15`
InsightCap == 15
\* `self.autonomous_insights[-8:]`
TrimKeep == 8

\* lines 143-144: what the trim reads, slices and assigns
AppTrim(insights) ==
    IF Len(insights) > InsightCap THEN LastSlice(insights, TrimKeep) ELSE insights

\* the truth value of a price or a market cap: None and 0 are false
Truthy(v) == v.t = "num" /\ v.n # 0

\* round(change, 1): a change is kept in tenths of a percent already
Round1(change) == change

\* the five tests of the loop over financial_data.items(), lines 167-184
IsGainer(data) == ChangeOf(data).n > Pct(10)
IsLoser(data) == ChangeOf(data).n < -Pct(10)
IsHighVolume(data) ==
    LET market_cap == DictGet(data, "market_cap", Num(0))
    IN  Truthy(market_cap) /\ market_cap.n > 1000
IsCheapGem(data) ==
    LET price == DictGet(data, "current_price", Num(0))
    IN  Truthy(price) /\ 1 <= price.n /\ price.n <= Usd(1) /\ ChangeOf(data).n > Pct(5)
IsExpensive(data) ==
    LET price == DictGet(data, "current_price", Num(0))
    IN  Truthy(price) /\ price.n > Usd(100)
\* line 290: abs(change) > 20
IsVolatile(data) == Abs(ChangeOf(data).n) > Pct(20)

\* the tuples the lists hold
GainerTuple(symbol, data) ==
    <<DictGet(data, "name", Str(symbol)), symbol, Round1(ChangeOf(data).n),
      DictGet(data, "current_price", Num(0))>>
VolumeTuple(symbol, data) ==
    <<DictGet(data, "name", Str(symbol)), symbol,
      DictGet(data, "current_price", Num(0)), DictGet(data, "market_cap", Num(0)).n>>
PriceTuple(symbol, data) ==
    <<DictGet(data, "name", Str(symbol)), symbol,
      DictGet(data, "current_price", Num(0)).n, Round1(ChangeOf(data).n)>>
VolatileTuple(symbol, data) ==
    <<DictGet(data, "name", Str(symbol)), symbol, Abs(ChangeOf(data).n),
      DictGet(data, "current_price", Num(0))>>

\* one list of the loop: the tuples of the entities that pass the test, in
\* dict order
Passes(list, data) ==
    CASE list = "gainers" -> IsGainer(data)
      [] list = "losers" -> IsLoser(data)
      [] list = "high_volume" -> IsHighVolume(data)
      [] list = "cheap_gems" -> IsCheapGem(data)
      [] list = "expensive_coins" -> IsExpensive(data)
      [] list = "high_volatility" -> IsVolatile(data)

TupleOf(list, symbol, data) ==
    CASE list \in {"gainers", "losers"} -> GainerTuple(symbol, data)
      [] list = "high_volume" -> VolumeTuple(symbol, data)
      [] list \in {"cheap_gems", "expensive_coins"} -> PriceTuple(symbol, data)
      [] list = "high_volatility" -> VolatileTuple(symbol, data)

Collect(financial_data, list) ==
    LET passing == SelectSeq(financial_data, LAMBDA item : Passes(list, item[2]))
    IN  [i \in 1..Len(passing) |-> TupleOf(list, passing[i][1], passing[i][2])]

\* list.sort(key=lambda x: x[k]) and its reverse=True form: stable both ways
RECURSIVE InsertSorted(_, _, _, _)
InsertSorted(sorted, x, k, reverse) ==
    IF sorted = <<>> THEN <<x>>
    ELSE IF (IF reverse THEN x[k] > Head(sorted)[k] ELSE x[k] < Head(sorted)[k])
         THEN <<x>> \o sorted
         ELSE <<Head(sorted)>> \o InsertSorted(Tail(sorted), x, k, reverse)

RECURSIVE SortBy(_, _, _)
SortBy(list, k, reverse) ==
    IF list = <<>> THEN <<>>
    ELSE InsertSorted(SortBy(SubSeq(list, 1, Len(list) - 1), k, reverse),
                      list[Len(list)], k, reverse)

\* gainers[:5], losers[:3], ...
Top(list, n) == SubSeq(list, 1, Min(n, Len(list)))

\* f"{price:.4f}" raises TypeError when price is None
FormatRaises(top, k) == \E i \in 1..Len(top) : top[i][k].t # "num"

\* symbol.replace('-USD', '') for each tuple
RECURSIVE CleanSymbol(_)
CleanSymbol(symbol) ==
    IF Len(symbol) < Len(S_USD) THEN symbol
    ELSE IF SubSeq(symbol, 1, Len(S_USD)) = S_USD
         THEN CleanSymbol(SubSeq(symbol, Len(S_USD) + 1, Len(symbol)))
         ELSE <<Head(symbol)>> \o CleanSymbol(Tail(symbol))

\* an insight dict of app.py that carries its list under the key 'data'
DataInsight(type, top, t) ==
    [type |-> type,
     description |-> [template |-> type, n |-> Len(top),
                      names |-> [i \in 1..Len(top) |-> CleanSymbol(top[i][2])]],
     keys |-> {"type", "description", "actionable", "data", "timestamp"},
     details |-> <<>>,
     data |-> top,
     entity_count |-> 0,
     timestamp |-> t]

\* an insight dict of app.py without a list: market_sentiment (which has the
\* key 'sentiment'), discovery_summary and system_status
PlainInsight(type, n, names, extra, t) ==
    [type |-> type,
     description |-> [template |-> type, n |-> n, names |-> names],
     keys |-> {"type", "description", "actionable", "timestamp"} \cup extra,
     details |-> <<>>,
     data |-> <<>>,
     entity_count |-> 0,
     timestamp |-> t]

\* one numbered block of the function: it raises, appends one insight, or
\* does nothing
Stage(list, top_n, type, price_at, t) ==
    IF list = <<>> THEN [raises |-> FALSE, appends |-> <<>>]
    ELSE IF price_at > 0 /\ FormatRaises(Top(list, top_n), price_at)
         THEN [raises |-> TRUE, appends |-> <<>>]
         ELSE [raises |-> FALSE, appends |-> <<DataInsight(type, Top(list, top_n), t)>>]

\* block 6, lines 267-286
SentimentStage(financial_data, t) ==
    LET total_positive == Cardinality({i \in 1..Len(financial_data) :
                                          ChangeOf(financial_data[i][2]).n > 0})
        total_negative == Cardinality({i \in 1..Len(financial_data) :
                                          ChangeOf(financial_data[i][2]).n < 0})
        market_sentiment == IF total_positive > total_negative
                            THEN "BULLISH" ELSE "BEARISH"
    IN  [raises |-> FALSE,
         appends |-> <<PlainInsight("market_sentiment", total_positive,
                                    <<market_sentiment, total_negative>>,
                                    {"sentiment"}, t)>>]

\* the blocks of `if financial_data:` in the order the function runs them
FinancialStages(financial_data, t) ==
    << Stage(SortBy(Collect(financial_data, "gainers"), 3, TRUE),
             5, "top_gainers", 4, t),
       Stage(SortBy(Collect(financial_data, "losers"), 3, FALSE),
             3, "potential_opportunities", 4, t),
       Stage(SortBy(Collect(financial_data, "cheap_gems"), 4, TRUE),
             3, "cheap_gems", 0, t),
       Stage(SortBy(Collect(financial_data, "high_volume"), 4, TRUE),
             5, "blue_chip_analysis", 3, t),
       Stage(SortBy(Collect(financial_data, "expensive_coins"), 3, TRUE),
             3, "high_value_watch", 0, t),
       SentimentStage(financial_data, t),
       Stage(SortBy(Collect(financial_data, "high_volatility"), 3, TRUE),
             3, "volatility_alert", 4, t) >>

\* block 8, lines 318-323
DiscoverySummary(universe, t) ==
    PlainInsight("discovery_summary",
                 Len(DictGet(universe, "financial", EmptyDict)),
                 <<Len(DictGet(universe, "news", EmptyDict)),
                   Len(DictGet(universe, "research", EmptyDict))>>,
                 {}, t)

\* the fallback insight of the except clause, lines 340-348
SystemStatus(universe, t) ==
    PlainInsight("system_status", get_total_entities(universe), <<>>, {}, t)

\* the blocks run in order up to the first that raises
RECURSIVE RunStages(_, _)
RunStages(stages, i) ==
    IF i > Len(stages) THEN [raises |-> FALSE, appends |-> <<>>]
    ELSE IF stages[i].raises THEN [raises |-> TRUE, appends |-> <<>>]
         ELSE LET rest == RunStages(stages, i + 1)
              IN  [raises |-> rest.raises,
                   appends |-> stages[i].appends \o rest.appends]

\* what one call appends after its trim, in order, and whether the call
\* raises.  Line 149 and the fallback both call self.get_total_entities():
\* on an object without that method the first raises inside the try and the
\* second raises out of the except clause.
AppAppends(prog, universe, t) ==
    LET financial_data == DictGet(universe, "financial", EmptyDict)
    IN  IF ~HasMethod(prog, "get_total_entities")
        THEN [raised |-> TRUE, appends |-> <<>>]
        ELSE IF financial_data # <<>> /\ GenerationRaises(financial_data)
        THEN [raised |-> FALSE, appends |-> <<SystemStatus(universe, t)>>]
        ELSE LET run == IF financial_data = <<>>
                        THEN [raises |-> FALSE, appends |-> <<>>]
                        ELSE RunStages(FinancialStages(financial_data, t), 1)
             IN  [raised |-> FALSE,
                  appends |-> run.appends \o
                              (IF run.raises THEN <<SystemStatus(universe, t)>>
                               ELSE <<DiscoverySummary(universe, t)>>)]

\* the function without its first two lines: no trim (a faulty variant)
app_generate_without_trim(prog, insights, universe, t) ==
    LET body == AppAppends(prog, universe, t)
    IN  [raised |-> body.raised, insights |-> insights \o body.appends]

\* _generate_autonomous_insights(self) of app.py as one call
app_generate_autonomous_insights(prog, insights, universe, t) ==
    LET body == AppAppends(prog, universe, t)
    IN  [raised |-> body.raised,
         insights |-> AppTrim(insights) \o body.appends]

---------------------------------------------------------------------------
(* The engine: search and status *)

\* the scan without its `break`: one match per attribute that holds the term
\* (a faulty variant)
RECURSIVE AttrMatchNoBreak(_, _, _, _)
AttrMatchNoBreak(entity, details, i, search_lower) ==
    IF i > Len(details) THEN <<>>
    ELSE (IF details[i][2].t = "str" /\ Contains(search_lower, Lower(details[i][2].s))
          THEN << [entity |-> entity, match_type |-> details[i][1],
                   details |-> <<>>, match_value |-> details[i][2].s] >>
          ELSE <<>>)
         \o AttrMatchNoBreak(entity, details, i + 1, search_lower)

\* the scan of one entity's attributes: the first string value that holds the
\* term gives the match, and the scan stops there
RECURSIVE FirstAttrMatch(_, _, _, _)
FirstAttrMatch(entity, details, i, search_lower) ==
    IF i > Len(details) THEN <<>>
    ELSE IF details[i][2].t = "str" /\ Contains(search_lower, Lower(details[i][2].s))
         THEN << [entity |-> entity, match_type |-> details[i][1],
                  details |-> <<>>, match_value |-> details[i][2].s] >>
         ELSE FirstAttrMatch(entity, details, i + 1, search_lower)

\* the if / elif on one entity: zero or one match
EntityMatch(entity, details, search_lower) ==
    IF Contains(search_lower, Lower(entity))
    THEN << [entity |-> entity, match_type |-> "name",
             details |-> details, match_value |-> <<>>] >>
    ELSE FirstAttrMatch(entity, details, 1, search_lower)

\* for entity, details in data.items()
RECURSIVE DomainMatches(_, _, _)
DomainMatches(data, i, search_lower) ==
    IF i > Len(data) THEN <<>>
    ELSE EntityMatch(data[i][1], data[i][2], search_lower)
         \o DomainMatches(data, i + 1, search_lower)

\* SearchAccumulate whose running total counts domains, not matches (a
\* faulty variant)
SearchAccumulateCountsDomains(results, domain, domain_matches) ==
    IF domain_matches # <<>>
    THEN [results EXCEPT
            !.results_by_domain = DictSet(@, domain, domain_matches),
            !.total_matches = @ + 1]
    ELSE results

\* SearchAccumulate without the `if domain_matches:` guard (a faulty variant)
SearchAccumulateUnguarded(results, domain, domain_matches) ==
    [results EXCEPT
        !.results_by_domain = DictSet(@, domain, domain_matches),
        !.total_matches = @ + Len(domain_matches)]

\* if domain_matches: results_by_domain[domain] = ...; total_matches += len(...)
SearchAccumulate(results, domain, domain_matches) ==
    IF domain_matches # <<>>
    THEN [results EXCEPT
            !.results_by_domain = DictSet(@, domain, domain_matches),
            !.total_matches = @ + Len(domain_matches)]
    ELSE results

\* for domain, data in self.data_universe.items()
RECURSIVE SearchLoop(_, _, _, _)
SearchLoop(universe, i, search_lower, results) ==
    IF i > Len(universe) THEN results
    ELSE SearchLoop(universe, i + 1, search_lower,
                    SearchAccumulate(results, universe[i][1],
                                     DomainMatches(universe[i][2], 1, search_lower)))

\* _universal_search
universal_search(universe, search_term, t) ==
    SearchLoop(universe, 1, Lower(search_term),
               [kind |-> "search", search_term |-> search_term,
                results_by_domain |-> EmptyDict, total_matches |-> 0,
                timestamp |-> t])

\* list(data.keys())[:3]
SampleSize == 3

\* the loop of get_universe_status
RECURSIVE UniverseStats(_, _)
UniverseStats(universe, i) ==
    IF i > Len(universe) THEN EmptyDict
    ELSE << <<universe[i][1],
              [total_entities |-> Len(universe[i][2]),
               sample_entities |-> SubSeq(DictKeys(universe[i][2]), 1,
                                          Min(SampleSize, Len(universe[i][2])))]>> >>
         \o UniverseStats(universe, i + 1)

\* get_universe_status
get_universe_status(universe, insights, state, t) ==
    [kind |-> "status",
     universe_statistics |-> UniverseStats(universe, 1),
     total_discoveries |-> get_total_entities(universe),
     autonomous_insights |-> Len(insights),
     exploration_state |-> state,
     timestamp |-> t]

---------------------------------------------------------------------------
(* Callers of the ready engine: the handlers of the service layer *)

\* the terms a caller searches for: the full key of an entity in another
\* case, a word of the attribute values, a term found nowhere
SearchTerms ==
    { <<"b","t","c","-","u","s","d">>, <<"c","r","y","p","t","o">>, <<"z","z","z">> }

\* trigger_exploration (GET /explore): the body of the handler, given what
\* the refresh did.  `except Exception` catches whatever the refresh raises.
trigger_exploration(r) ==
    IF r.raised
    THEN [kind |-> "explore", keys |-> {"success", "error"},
          success |-> FALSE, insights_generated |-> 0]
    ELSE [kind |-> "explore", keys |-> {"success", "result"},
          success |-> TRUE, insights_generated |-> r.result.insights_generated]

TriggerExploration ==
    /\ phase = "ready"
    /\ clock <= MaxCycles
    /\ LET r == autonomous_universe_exploration(program, autonomous_insights,
                                                data_universe, exploration_state, clock)
           reply == trigger_exploration(r)
       IN  /\ autonomous_insights' = r.insights
           /\ data_universe' = r.universe
           /\ exploration_state' = r.state
           /\ response' = reply
           /\ explore_log' = IF explore_log = <<>> THEN <<reply>>
                             ELSE <<explore_log[Len(explore_log)], reply>>
    /\ clock' = clock + 1
    /\ UNCHANGED <<program, phase, outage, last_outcomes, tasks>>

\* insights (GET /insights): get_recent_insights with its default limit
Insights ==
    /\ phase = "ready"
    /\ response' = [kind |-> "insights",
                    body |-> get_recent_insights(autonomous_insights, DefaultLimit)]
    /\ UNCHANGED <<program, phase, data_universe, autonomous_insights,
                   exploration_state, clock, outage, explore_log, last_outcomes, tasks>>

\* search (GET /search/<term>)
Search ==
    /\ phase = "ready"
    /\ \E term \in SearchTerms :
        response' = universal_search(data_universe, term, clock)
    /\ UNCHANGED <<program, phase, data_universe, autonomous_insights,
                   exploration_state, clock, outage, explore_log, last_outcomes, tasks>>

\* status (GET /status)
Status ==
    /\ phase = "ready"
    /\ response' = get_universe_status(data_universe, autonomous_insights,
                                       exploration_state, clock)
    /\ UNCHANGED <<program, phase, data_universe, autonomous_insights,
                   exploration_state, clock, outage, explore_log, last_outcomes, tasks>>


---------------------------------------------------------------------------
(* The background exploration thread of app.py (continuous_exploration),   *)
(* run over the ready engine next to the handlers                          *)

\* exploration_active: assigned True at line 428 and nowhere else
exploration_active == TRUE

\* the loop left after the first pass (a faulty variant)
after_sleep_once(active) == "exited"

\* where the thread goes when its sleep returns: the test of the while loop
after_sleep(active) == IF active THEN "loop" ELSE "exited"

\* try: refresh, sleep(300) / except Exception: sleep(600)
after_cycle(raised) == IF raised THEN "backoff" ELSE "sleep"

\* exploration_thread.start()
StartThread ==
    /\ phase = "ready"
    /\ task_pc = "not_started"
    /\ task_pc' = after_sleep(exploration_active)
    /\ UNCHANGED <<program, phase, data_universe, autonomous_insights,
                   exploration_state, clock, outage, explore_log, response,
                   last_outcomes, threads>>

\* one pass of the try block up to the sleep it ends in
TaskExplore ==
    /\ phase = "ready"
    /\ task_pc = "loop"
    /\ clock <= MaxCycles
    /\ LET r == autonomous_universe_exploration(program, autonomous_insights,
                                                data_universe, exploration_state, clock)
       IN  /\ autonomous_insights' = r.insights
           /\ data_universe' = r.universe
           /\ exploration_state' = r.state
           /\ task_pc' = after_cycle(r.raised)
    /\ clock' = clock + 1
    /\ UNCHANGED <<program, phase, outage, explore_log, response,
                   last_outcomes, threads>>

\* time.sleep returns and the loop test is made
TaskWake ==
    /\ task_pc \in {"sleep", "backoff"}
    /\ task_pc' = after_sleep(exploration_active)
    /\ UNCHANGED <<program, phase, data_universe, autonomous_insights,
                   exploration_state, clock, outage, explore_log, response,
                   last_outcomes, threads>>

Next ==
    \/ DiscoverCrypto
    \/ DiscoverNews
    \/ DiscoverResearch
    \/ BootstrapComplete
    \/ TriggerExploration
    \/ Search
    \/ Status
    \/ Insights

Spec == Init /\ [][Next]_vars

\* the two callers of the refresh side by side: the thread and /explore
NextRefresh ==
    \/ DiscoverCrypto
    \/ DiscoverNews
    \/ DiscoverResearch
    \/ BootstrapComplete
    \/ StartThread
    \/ TaskExplore
    \/ TaskWake
    \/ TriggerExploration

RefreshSpec == Init /\ [][NextRefresh]_vars

\* the thread alone
NextTask ==
    \/ DiscoverCrypto
    \/ DiscoverNews
    \/ DiscoverResearch
    \/ BootstrapComplete
    \/ StartThread
    \/ TaskExplore
    \/ TaskWake

\* the scheduler runs a runnable thread, and a sleep returns
TaskSpec ==
    /\ Init
    /\ [][NextTask]_vars
    /\ WF_vars(StartThread)
    /\ WF_vars(TaskExplore)
    /\ WF_vars(TaskWake)

---------------------------------------------------------------------------
(* The function of app.py called on the ready engine, one call after        *)
(* another, and the list read back with get_recent_insights                 *)

\* _generate_autonomous_insights(explorer)
AppGenerateCall ==
    /\ phase = "ready"
    /\ clock <= MaxCycles
    /\ LET r == app_generate_autonomous_insights(program, autonomous_insights,
                                                 data_universe, clock)
       IN  autonomous_insights' = r.insights
    /\ clock' = clock + 1
    /\ UNCHANGED <<program, phase, data_universe, exploration_state, outage,
                   explore_log, response, last_outcomes, tasks>>

NextFunction ==
    \/ DiscoverCrypto
    \/ DiscoverNews
    \/ DiscoverResearch
    \/ BootstrapComplete
    \/ AppGenerateCall
    \/ Insights

FunctionSpec == Init /\ [][NextFunction]_vars

---------------------------------------------------------------------------
(* Two calls of the function of app.py in progress on one engine: the one   *)
(* of the background thread and the one of an /explore request.  A call is  *)
(* a sequence of reads and writes of self.autonomous_insights.  The trim    *)
(* `self.autonomous_insights = self.autonomous_insights[-8:]` reads the     *)
(* attribute and slices it into a new list, then stores the new list; no    *)
(* lock is held, so the other thread may run between the two.               *)

ThreadIds == {"background", "request"}

IdleThread == [pc |-> "idle", local |-> <<>>, todo |-> <<>>, stamp |-> 0, count |-> 0]

\* the engine niverse_explorer.py builds from the page outcomes `outs`, every
\* feed and every category answering
BootUniverse(outs, t) ==
    LET prog == "niverse_explorer"
        financial == discover_crypto_universe(prog, outs, t)
        news == discover_news_universe(prog, [i \in 1..Len(Feeds) |-> 1], t)
        research == discover_research_universe(
                        prog, [i \in 1..Len(QueriedCategories) |-> 1], t)
    IN  DictSet(DictSet(DictSet(EmptyDict, "financial", financial),
                        "news", news), "research", research)

\* a constructed engine (each market page failed or answered in full), and
\* no call in progress
RaceInit ==
    /\ program = "niverse_explorer"
    /\ phase = "ready"
    /\ clock = 1
    /\ \E outs \in CryptoOutcomes(program) :
        /\ \A p \in DOMAIN outs : outs[p] \in {-1, Len(MarketPage(p))}
        /\ data_universe = BootUniverse(outs, clock)
    /\ autonomous_insights = <<>>
    /\ exploration_state = [total_discoveries |-> 0, universe_size |-> 0, last_update |-> 0]
    /\ outage = FALSE
    /\ explore_log = <<>>
    /\ response = NoResponse
    /\ last_outcomes = <<>>
    /\ task_pc = "not_started"
    /\ threads = [th \in ThreadIds |-> IdleThread]

\* a whole call of the function while no other call is in progress
SequentialCall ==
    /\ clock <= MaxSequential
    /\ \A th \in ThreadIds : threads[th].pc = "idle"
    /\ LET r == app_generate_autonomous_insights(program, autonomous_insights,
                                                 data_universe, clock)
       IN  autonomous_insights' = r.insights
    /\ clock' = clock + 1
    /\ UNCHANGED <<program, phase, data_universe, exploration_state, outage,
                   explore_log, response, last_outcomes, tasks>>

\* a thread enters the function: `if len(self.autonomous_insights) > 15`.
\* What the call is going to append depends on the universe alone.
CallBegin ==
    /\ clock <= MaxCycles
    /\ \E th \in ThreadIds :
        /\ threads[th].pc = "idle"
        /\ LET body == AppAppends(program, data_universe, clock)
           IN  threads' = [threads EXCEPT ![th] =
                   [pc |-> IF Len(autonomous_insights) > InsightCap
                           THEN "slice" ELSE "append",
                    local |-> <<>>,
                    todo |-> body.appends,
                    stamp |-> clock,
                    count |-> Len(body.appends)]]
    /\ clock' = clock + 1
    /\ UNCHANGED <<program, phase, data_universe, autonomous_insights,
                   exploration_state, outage, explore_log, response,
                   last_outcomes, task_pc>>

\* the right-hand side of line 144: self.autonomous_insights[-8:]
CallSlice ==
    /\ \E th \in ThreadIds :
        /\ threads[th].pc = "slice"
        /\ threads' = [threads EXCEPT ![th].pc = "assign",
                                      ![th].local = LastSlice(autonomous_insights, TrimKeep)]
    /\ UNCHANGED <<program, phase, data_universe, autonomous_insights,
                   exploration_state, clock, outage, explore_log, response,
                   last_outcomes, task_pc>>

\* the assignment of line 144
CallAssign ==
    /\ \E th \in ThreadIds :
        /\ threads[th].pc = "assign"
        /\ autonomous_insights' = threads[th].local
        /\ threads' = [threads EXCEPT ![th].pc = "append", ![th].local = <<>>]
    /\ UNCHANGED <<program, phase, data_universe, exploration_state, clock,
                   outage, explore_log, response, last_outcomes, task_pc>>

\* one self.autonomous_insights.append(...) of the call
CallAppend ==
    /\ \E th \in ThreadIds :
        /\ threads[th].pc = "append"
        /\ autonomous_insights' = Append(autonomous_insights, Head(threads[th].todo))
        /\ threads' = [threads EXCEPT
                           ![th].todo = Tail(threads[th].todo),
                           ![th].pc = IF Len(threads[th].todo) = 1
                                      THEN "done" ELSE "append"]
    /\ UNCHANGED <<program, phase, data_universe, exploration_state, clock,
                   outage, explore_log, response, last_outcomes, task_pc>>

NextRace ==
    \/ SequentialCall
    \/ CallBegin
    \/ CallSlice
    \/ CallAssign
    \/ CallAppend

RaceSpec == RaceInit /\ [][NextRace]_vars

---------------------------------------------------------------------------
(* Search as a function of the universe: every discovered universe, probed  *)
(* with the keys it holds and with words of its attribute values            *)

\* every entity key of the universe
AllEntityKeys(universe) ==
    UNION {KeySet(universe[i][2]) : i \in 1..Len(universe)}

ProbeTerms(universe) ==
    SearchTerms
    \cup {Lower(k) : k \in AllEntityKeys(universe)}
    \cup { <<"E","T","H","-","U","S","D">>, <<"u","s","d">>, <<"B","I","T">>, <<"t","0">>, <<"t">>, <<"N","e","w","s">>, <<>> }

\* _universal_search called with any probe term
SearchProbe ==
    /\ phase = "ready"
    /\ \E term \in ProbeTerms(data_universe) :
        response' = universal_search(data_universe, term, clock)
    /\ UNCHANGED <<program, phase, data_universe, autonomous_insights,
                   exploration_state, clock, outage, explore_log, last_outcomes, tasks>>

NextSearch ==
    \/ DiscoverCrypto
    \/ DiscoverNews
    \/ DiscoverResearch
    \/ BootstrapComplete
    \/ SearchProbe

SearchSpec == Init /\ [][NextSearch]_vars

---------------------------------------------------------------------------
(* Properties *)

Ready == phase = "ready"

Financial == DictGet(data_universe, "financial", EmptyDict)

\* the insights the last completed refresh appended
CycleInsights == SelectSeq(autonomous_insights, LAMBDA ins : ins.timestamp = clock - 1)

\* the entity keys an insight's payload lists
Listed(ins) == {ins.details[i][1] : i \in 1..Len(ins.details)}

NumChange(data) == ChangeOf(data).t = "num"

Gainers ==
    {Financial[i][1] : i \in {j \in 1..Len(Financial) :
        NumChange(Financial[j][2]) /\ ChangeOf(Financial[j][2]).n > Pct(10)}}

Losers ==
    {Financial[i][1] : i \in {j \in 1..Len(Financial) :
        NumChange(Financial[j][2]) /\ ChangeOf(Financial[j][2]).n < -Pct(10)}}

\* character-wise comparison that ignores case
SameIgnoringCase(a, b) ==
    /\ Len(a) = Len(b)
    /\ \A i \in 1..Len(a) : UpperChar(a[i]) = UpperChar(b[i])

ContainsIgnoringCase(needle, haystack) ==
    \E i \in 0..(Len(haystack) - Len(needle)) :
        \A j \in 1..Len(needle) : UpperChar(haystack[i + j]) = UpperChar(needle[j])

\* the term occurs in no entity key and in no string-valued attribute
AbsentEverywhere(term) ==
    \A d \in 1..Len(data_universe) :
        \A e \in 1..Len(data_universe[d][2]) :
            /\ ~ContainsIgnoringCase(term, data_universe[d][2][e][1])
            /\ \A a \in 1..Len(data_universe[d][2][e][2]) :
                  data_universe[d][2][e][2][a][2].t = "str"
                  => ~ContainsIgnoringCase(term, data_universe[d][2][e][2][a][2].s)

RECURSIVE SumCounts(_, _)
SumCounts(stats, i) ==
    IF i > Len(stats) THEN 0 ELSE stats[i][2].total_entities + SumCounts(stats, i + 1)

RECURSIVE SumLens(_, _)
SumLens(by_domain, i) ==
    IF i > Len(by_domain) THEN 0 ELSE Len(by_domain[i][2]) + SumLens(by_domain, i + 1)

(* C1: after any number of refresh cycles the insight list, measured at the  *)
(* end of a cycle, holds at most 15 entries (the threshold of the trim).     *)
C1_CapAfterCycle ==
    (Ready /\ clock > 1) => Len(autonomous_insights) <= InsightCap

(* C2: a refresh cycle turns the insight list into the list before it, or    *)
(* into exactly its last 8 entries when it held more than 15, followed by    *)
(* the insights generated in this cycle; nothing retained is altered or      *)
(* reordered.                                                                *)
C2_TrimThenAppend ==
    [][clock' = clock + 1 =>
         LET before == autonomous_insights
             retained == IF Len(before) > InsightCap
                         THEN SubSeq(before, Len(before) - TrimKeep + 1, Len(before))
                         ELSE before
             after == autonomous_insights'
         IN  /\ Len(after) >= Len(retained)
             /\ SubSeq(after, 1, Len(retained)) = retained
             /\ \A i \in (Len(retained) + 1)..Len(after) : after[i].timestamp = clock
      ]_vars

(* C3: in every state of the ready engine the status snapshot reports, for   *)
(* every domain, the number of entities the domain holds, and its            *)
(* total_discoveries (get_total_entities) is the sum of those counts; a      *)
(* snapshot handed out earlier still says so.                                *)
C3_StatusCounts ==
    Ready =>
        LET snap == get_universe_status(data_universe, autonomous_insights,
                                        exploration_state, clock)
            stats == snap.universe_statistics
        IN  /\ DictKeys(stats) = DictKeys(data_universe)
            /\ \A i \in 1..Len(stats) :
                  stats[i][2].total_entities = Cardinality(KeySet(data_universe[i][2]))
            /\ snap.total_discoveries = SumCounts(stats, 1)
            /\ get_total_entities(data_universe) = SumCounts(stats, 1)
            /\ response.kind = "status" =>
                  /\ response.universe_statistics = stats
                  /\ response.total_discoveries = SumCounts(stats, 1)

\* a snapshot was handed out for a universe with three populated domains in
\* which a repeated symbol overwrote its entry
C3_Witness ==
    /\ Ready
    /\ response.kind = "status"
    /\ Len(Financial) = 5
    /\ DictGet(DictGet(Financial, <<"B","T","C","-","U","S","D">>, EmptyDict), "name", None).s = <<"B","i","t","c","a","s","h">>
    /\ response.total_discoveries = 5 + Len(Feeds) + Len(QueriedCategories)

(* C4: a search for a term that equals, ignoring case, the full key of an    *)
(* entity E of domain D returns in results_by_domain[D] exactly one entry    *)
(* for E, of match_type "name".                                              *)
C4_FullKeyNameMatch ==
    response.kind = "search" =>
        \A d \in 1..Len(data_universe) :
            \A e \in 1..Len(data_universe[d][2]) :
                LET key == data_universe[d][2][e][1]
                    matches == DictGet(response.results_by_domain, data_universe[d][1], <<>>)
                    forKey == {j \in 1..Len(matches) : matches[j].entity = key}
                IN  SameIgnoringCase(response.search_term, key) =>
                        /\ Cardinality(forKey) = 1
                        /\ \A j \in forKey : matches[j].match_type = "name"

\* the key BTC-USD was searched for in lower case and found by name
C4_Witness ==
    /\ response.kind = "search"
    /\ response.search_term = <<"b","t","c","-","u","s","d">>
    /\ \E j \in 1..Len(DictGet(response.results_by_domain, "financial", <<>>)) :
          LET m == DictGet(response.results_by_domain, "financial", <<>>)[j]
          IN  m.entity = <<"B","T","C","-","U","S","D">> /\ m.match_type = "name"

(* C5: the total_matches a search returns is the sum of the lengths of the   *)
(* match lists of results_by_domain.                                         *)
C5_TotalIsSum ==
    response.kind = "search" =>
        response.total_matches = SumLens(response.results_by_domain, 1)

\* a search matched in all three domains, several entities in one of them
C5_Witness ==
    /\ response.kind = "search"
    /\ Len(response.results_by_domain) = 3
    /\ \E i \in 1..3 : Len(response.results_by_domain[i][2]) >= 3
    /\ response.total_matches >= 5

(* C6: a search for a term that occurs (ignoring case, as the search         *)
(* matches) in no entity key and in no string-valued attribute returns       *)
(* total_matches 0 and an empty results_by_domain; and a domain is a key of  *)
(* results_by_domain only with a non-empty match list.                       *)
C6_AbsentTermEmpty ==
    response.kind = "search" =>
        /\ AbsentEverywhere(response.search_term) =>
              /\ response.total_matches = 0
              /\ response.results_by_domain = EmptyDict
        /\ \A i \in 1..Len(response.results_by_domain) :
              response.results_by_domain[i][2] # <<>>

\* a term found nowhere was searched for in a universe of three populated domains
C6_Witness ==
    /\ response.kind = "search"
    /\ response.search_term = <<"z","z","z">>
    /\ \A d \in 1..Len(data_universe) : data_universe[d][2] # <<>>
    /\ Len(data_universe) = 3
    /\ response.total_matches = 0

(* C7: a refresh over a non-empty financial domain buckets movers by sign:   *)
(* every entity above +10% is reported as a gainer and never with the        *)
(* losers, every entity below -10% as a loser and never with the gainers,    *)
(* entities within 10% are in neither bucket, and gainers and losers are     *)
(* reported in distinct insights.                                            *)
C7_BucketsBySign ==
    (Ready /\ clock > 1 /\ Financial # <<>>) =>
        /\ \A k \in Gainers :
              \E i \in 1..Len(CycleInsights) :
                  k \in Listed(CycleInsights[i]) /\ Listed(CycleInsights[i]) \cap Losers = {}
        /\ \A k \in Losers :
              \E i \in 1..Len(CycleInsights) :
                  k \in Listed(CycleInsights[i]) /\ Listed(CycleInsights[i]) \cap Gainers = {}
        /\ \A i \in 1..Len(CycleInsights) :
              Listed(CycleInsights[i]) \subseteq (Gainers \cup Losers)

\* the percent changes of the financial domain, in entity order
FinancialChanges == [i \in 1..Len(Financial) |-> ChangeOf(Financial[i][2])]

(* C8: a refresh over a non-empty financial domain counts the entities whose *)
(* |percent change| is below the low-volatility threshold and reports the    *)
(* count in a stability insight; the changes [12.0, -11.0, 1.0, 0.5] give a  *)
(* stability insight that counts two stable entities.                        *)
C8_StabilityInsight ==
    (Ready /\ clock > 1
       /\ FinancialChanges = <<Num(Pct(12)), Num(-Pct(11)), Num(Pct(1)), Num(5)>>) =>
        \E i \in 1..Len(CycleInsights) :
            /\ CycleInsights[i].type = "stability"
            /\ CycleInsights[i].description.n = 2

(* C9: two successive /explore requests over unchanged cached data both      *)
(* return success: true, the second insights_generated is no smaller than    *)
(* the first, and neither exceeds the configured maximum.                    *)
C9_ExploreTwice ==
    Len(explore_log) = 2 =>
        /\ explore_log[1].success /\ explore_log[2].success
        /\ explore_log[2].insights_generated >= explore_log[1].insights_generated
        /\ explore_log[1].insights_generated <= InsightCap
        /\ explore_log[2].insights_generated <= InsightCap

(* C10: when every upstream call of the discovery routines fails during      *)
(* bootstrap, the constructor still completes without raising and leaves     *)
(* the engine ready with get_total_entities() = 0, and status and search     *)
(* then return empty but valid results.                                      *)
C10_OutageStillReady ==
    (phase \in {"ready", "crashed"} /\ outage) =>
        /\ phase = "ready"
        /\ get_total_entities(data_universe) = 0
        /\ LET snap == get_universe_status(data_universe, autonomous_insights,
                                           exploration_state, clock)
           IN  \A i \in 1..Len(snap.universe_statistics) :
                   snap.universe_statistics[i][2].total_entities = 0
        /\ \A term \in SearchTerms :
              LET r == universal_search(data_universe, term, clock)
              IN  r.total_matches = 0 /\ r.results_by_domain = EmptyDict

\* C11: a refresh, run by the background thread or by /explore, makes no
\* upstream call and leaves the universe mapping as it is (domains, entity
\* keys, attribute records); it changes the insight list and the
\* exploration-state record only.
C11_RefreshKeepsUniverse ==
    [][clock' # clock =>
          /\ data_universe' = data_universe
          /\ last_outcomes' = last_outcomes
          /\ outage' = outage
          /\ phase' = phase]_vars

\* a refresh has run over a universe that holds entities, and it appended
C11_Witness ==
    /\ Ready
    /\ clock > 2
    /\ task_pc = "sleep"
    /\ response # NoResponse
    /\ SumLenFrom(data_universe, 1) > 0
    /\ CycleInsights # <<>>

\* C12: /insights returns min(10, n) records, the i-th one made of the type,
\* description and timestamp of the i-th of the last min(10, n) insights.
C12_LastTenInOrder ==
    [][(response' # response /\ response'.kind = "insights") =>
          LET n == Len(autonomous_insights)
              m == IF n < DefaultLimit THEN n ELSE DefaultLimit
          IN  /\ Len(response'.body) = m
              /\ \A i \in 1..m :
                   LET ins == autonomous_insights[n - m + i]
                   IN  /\ response'.body[i].category = ins.type
                       /\ response'.body[i].description = ins.description
                       /\ response'.body[i].timestamp = ins.timestamp]_vars

\* /insights answered from a list longer than the limit
C12_Witness ==
    /\ response.kind = "insights"
    /\ task_pc = "not_started"
    /\ Len(autonomous_insights) > DefaultLimit
    /\ Len(response.body) = DefaultLimit

\* C13: an /explore request ends with {success: true, result} or with
\* {success: false, error}, never with an exception, and on an engine whose
\* bootstrap finished it ends with success.
C13_ExploreOutcome ==
    response.kind = "explore" =>
        /\ \/ response.success /\ response.keys = {"success", "result"}
           \/ ~response.success /\ response.keys = {"success", "error"}
        /\ Ready => response.success

\* /explore answered on an engine whose insight generation met a null change
C13_Witness ==
    /\ response.kind = "explore"
    /\ Financial # <<>>
    /\ GenerationRaises(Financial)

C14_FallbackOnFailure ==
    (Ready /\ clock > 1 /\ Financial # <<>> /\ GenerationRaises(Financial)) =>
        /\ CycleInsights # <<>>
        /\ CycleInsights[Len(CycleInsights)].type = "system_status"
        /\ Cardinality({i \in 1..Len(CycleInsights) :
                           CycleInsights[i].type = "system_status"}) = 1

\* C19: with one call after another, a call of the trimming function
\* appends between 1 and 8 insights, and the list is never longer than 23
\* when a call ends.
C19_CycleBounds ==
    (Ready /\ clock > 1) =>
        /\ Len(CycleInsights) >= 1
        /\ Len(CycleInsights) <= TrimKeep
        /\ Len(autonomous_insights) <= InsightCap + TrimKeep

\* a call that trimmed the list and then appended eight insights
C19_Witness ==
    /\ Ready
    /\ clock > 3
    /\ Len(CycleInsights) = TrimKeep
    /\ Len(autonomous_insights) = TrimKeep + TrimKeep

\* the list an insight was stored with, under whichever key
Payload(ins) ==
    IF "data" \in ins.keys THEN ins.data
    ELSE IF "details" \in ins.keys THEN ins.details ELSE <<>>

\* C20: the record get_recent_insights returns for an insight stored with a
\* list of entities carries that list in `details`, and `details` is empty
\* only for an insight stored without one.
C20_DetailsCarryPayload ==
    [][(response' # response /\ response'.kind = "insights") =>
          LET recent == LastSlice(autonomous_insights, DefaultLimit)
          IN  \A i \in 1..Len(recent) :
                  response'.body[i].details = Payload(recent[i])]_vars


\* C18: when the call of the background thread and the call of a request run
\* interleaved on one engine, no insight is lost to the other call's trim:
\* after both have finished, every insight either of them appended is in the
\* list.
C18_NoInsightLost ==
    (\A th \in ThreadIds : threads[th].pc = "done") =>
        \A th \in ThreadIds :
            Cardinality({i \in 1..Len(autonomous_insights) :
                            autonomous_insights[i].timestamp = threads[th].stamp})
                = threads[th].count


\* the entity keys the answers `outs` of the market pages yield
ExpectedCryptoKeys(outs) ==
    UNION {{Upper(MarketPage(p)[i].symbol) \o S_USD : i \in 1..outs[p]} :
              p \in {q \in DOMAIN outs : outs[q] >= 1}}

\* the feed titles (the url where the feed has no title) of the feeds that
\* answered with entries
ExpectedNewsKeys(outs) ==
    {IF Feeds[i].title.t = "str" THEN Feeds[i].title.s ELSE Feeds[i].url :
        i \in {j \in DOMAIN outs : outs[j] = 1}}

ExpectedResearchKeys(outs) ==
    {QueriedCategories[i] : i \in {j \in DOMAIN outs : outs[j] = 1}}

\* C16: in niverse_explorer.py a failing page, feed or category is skipped
\* and the routine completes: the domain it assigns holds exactly the
\* entities of the calls that succeeded; and whichever routines fail, the
\* bootstrap runs financial, news, research in that order and finishes.
C16_FailureIsolated ==
    program = "niverse_explorer" =>
        /\ phase = "discover_crypto" => DictKeys(data_universe) = <<>>
        /\ phase = "discover_news" =>
              /\ DictKeys(data_universe) = <<"financial">>
              /\ KeySet(Financial) = ExpectedCryptoKeys(last_outcomes)
        /\ phase = "discover_research" =>
              /\ DictKeys(data_universe) = <<"financial", "news">>
              /\ KeySet(DictGet(data_universe, "news", EmptyDict))
                    = ExpectedNewsKeys(last_outcomes)
        /\ phase = "bootstrap_print" =>
              /\ DictKeys(data_universe) = <<"financial", "news", "research">>
              /\ KeySet(DictGet(data_universe, "research", EmptyDict))
                    = ExpectedResearchKeys(last_outcomes)
        /\ phase \in {"discover_crypto", "discover_news", "discover_research",
                       "bootstrap_print", "ready"}

\* the first market page failed, the second answered in full, the third
\* with one entry, and the routine went on to the next
C16_Witness ==
    /\ program = "niverse_explorer"
    /\ phase = "discover_news"
    /\ last_outcomes = <<-1, Len(MarketPage(2)), 1>>
    /\ Len(Financial) = Len(MarketPage(2)) + 1

\* the string-valued attributes of an entity that hold the term, by position
HoldingAttrs(details, term) ==
    {i \in 1..Len(details) :
        details[i][2].t = "str" /\ ContainsIgnoringCase(term, details[i][2].s)}

\* C17: a search lists an entity at most once in its domain's matches; an
\* entity whose key holds the term is a "name" match whatever its
\* attributes hold; otherwise it is matched under the first string-valued
\* attribute, in attribute order, that holds the term, and under no other.
C17_OneMatchPerEntity ==
    response.kind = "search" =>
        \A d \in 1..Len(data_universe) :
            \A e \in 1..Len(data_universe[d][2]) :
                LET key == data_universe[d][2][e][1]
                    details == data_universe[d][2][e][2]
                    matches == DictGet(response.results_by_domain, data_universe[d][1], <<>>)
                    forKey == {j \in 1..Len(matches) : matches[j].entity = key}
                    holding == HoldingAttrs(details, response.search_term)
                IN  /\ Cardinality(forKey) <= 1
                    /\ ContainsIgnoringCase(response.search_term, key) =>
                          /\ Cardinality(forKey) = 1
                          /\ \A j \in forKey : matches[j].match_type = "name"
                                                  /\ matches[j].details = details
                    /\ (~ContainsIgnoringCase(response.search_term, key) /\ holding # {}) =>
                          /\ Cardinality(forKey) = 1
                          /\ \A j \in forKey :
                                LET first == CHOOSE i \in holding : \A k \in holding : i <= k
                                IN  /\ matches[j].match_type = details[first][1]
                                    /\ matches[j].match_value = details[first][2].s
                    /\ (~ContainsIgnoringCase(response.search_term, key) /\ holding = {}) =>
                          forKey = {}

\* the term "t" is in the key of ETH-USD, whose attributes hold it too, and
\* in two attributes of ADA-USD, which is matched under the first of them
C17_Witness ==
    /\ response.kind = "search"
    /\ response.search_term = <<"t">>
    /\ DictHas(Financial, <<"E","T","H","-","U","S","D">>)
    /\ LET matches == DictGet(response.results_by_domain, "financial", <<>>)
       IN  \E j \in 1..Len(matches) :
              /\ matches[j].entity = <<"A","D","A","-","U","S","D">>
              /\ matches[j].match_type = "discovered_at"
              /\ Cardinality(HoldingAttrs(
                     DictGet(Financial, <<"A","D","A","-","U","S","D">>, EmptyDict),
                     <<"t">>)) = 2

=============================================================================
